---- MODULE Spec2Model ----
(***************************************************************************)
(* deletedups (src/main.go): find the files of a "clean" tree that         *)
(* duplicate a file of a "keep" tree (same size, same SHA-256) and delete  *)
(* them.  The model is one run of main(), step by step, over a small       *)
(* filesystem; a dry run that ended may be followed by a live run on the   *)
(* filesystem it left.  A run starts after flag.Parse with both roots      *)
(* given; every directory can be read, and nothing but the run changes the *)
(* filesystem.                                                             *)
(*                                                                         *)
(* Strings (paths, the -extensions value, suffixes) are sequences of       *)
(* one-character strings, so that strings.ToLower, strings.Split and       *)
(* strings.HasSuffix are computed, not assumed.                            *)
(***************************************************************************)
EXTENDS Integers, Sequences, FiniteSets, TLC

VARIABLES
    fs,            \* the filesystem: existing path -> file
    keep,          \* -keep
    clean,         \* -clean
    extensions,    \* -extensions
    dry,           \* -dry
    pc,            \* position of main()
    suffixes,      \* main: suffixes
    keeperSizes,   \* main: keeperSizes (size -> paths)
    cleanerSizes,  \* main: cleanerSizes
    sizesLeft,     \* keys of keeperSizes the outer range loop has yet to visit
    size,          \* the outer loop's current key
    keepers,       \* main: keepers (digest -> path)
    cleaners,      \* main: cleaners
    keysLeft,      \* keys of keepers the inner range loop has yet to visit
    filecount,     \* main: filecount
    bytecount,     \* main: bytecount
    out,           \* what the run has done so far (history of its effects)
    fs0,           \* the filesystem the current run started from
    dryRun         \* what the preceding dry run reported (NoRun if none)

vars == <<fs, keep, clean, extensions, dry, pc, suffixes, keeperSizes,
          cleanerSizes, sizesLeft, size, keepers, cleaners, keysLeft,
          filecount, bytecount, out, fs0, dryRun>>

----------------------------------------------------------------------------
(* Bounds of the model *)

\* At most this many directory entries exist in the initial filesystem.
MaxFiles == 3

----------------------------------------------------------------------------
(* Strings *)

UpperLetters == <<"A","B","C","D","E","F","G","H","I","J","K","L","M",
                  "N","O","P","Q","R","S","T","U","V","W","X","Y","Z">>
LowerLetters == <<"a","b","c","d","e","f","g","h","i","j","k","l","m",
                  "n","o","p","q","r","s","t","u","v","w","x","y","z">>

\* The characters of the model in the order filepath.Walk meets them: Walk
\* sorts the names of one directory bytewise, so the separator sorts before
\* every character of a name; the rest is ASCII order.
CharOrder == <<"/", ",", ".">> \o UpperLetters \o LowerLetters

Chars == {CharOrder[i] : i \in 1..Len(CharOrder)}

RankOf == [c \in Chars |-> CHOOSE i \in 1..Len(CharOrder) : CharOrder[i] = c]

Rank(c) == RankOf[c]

LowerOf ==
    [c \in Chars |->
        IF \E i \in 1..Len(UpperLetters) : UpperLetters[i] = c
        THEN LowerLetters[CHOOSE i \in 1..Len(UpperLetters) : UpperLetters[i] = c]
        ELSE c]

ToLowerChar(c) == LowerOf[c]

\* strings.ToLower
ToLower(s) == [i \in 1..Len(s) |-> ToLowerChar(s[i])]

\* strings.HasSuffix
HasSuffix(s, suffix) ==
    /\ Len(suffix) <= Len(s)
    /\ SubSeq(s, Len(s) - Len(suffix) + 1, Len(s)) = suffix

HasPrefix(s, prefix) ==
    /\ Len(prefix) <= Len(s)
    /\ SubSeq(s, 1, Len(prefix)) = prefix

\* strings.Split(s, sep) for a one-character sep: the pieces between the
\* separators, so one piece (the empty string) for the empty string.
RECURSIVE SplitFrom(_, _, _, _)
SplitFrom(s, sep, i, piece) ==
    IF i > Len(s) THEN <<piece>>
    ELSE IF s[i] = sep THEN <<piece>> \o SplitFrom(s, sep, i + 1, <<>>)
    ELSE SplitFrom(s, sep, i + 1, Append(piece, s[i]))

Split(s, sep) == SplitFrom(s, sep, 1, <<>>)

\* s < t in the order of CharOrder
RECURSIVE LessFrom(_, _, _)
LessFrom(s, t, i) ==
    IF i > Len(t) THEN FALSE
    ELSE IF i > Len(s) THEN TRUE
    ELSE IF s[i] = t[i] THEN LessFrom(s, t, i + 1)
    ELSE Rank(s[i]) < Rank(t[i])

Less(s, t) == LessFrom(s, t, 1)

----------------------------------------------------------------------------
(* The filesystem *)

DirK == <<"k">>
DirC == <<"c">>
Missing == <<"x">>
FileRoot == <<"c", "/", "a", ".", "t">>

\* The names a file may have.
AllPaths == {
    <<"k", "/", "a", ".", "t">>,
    <<"k", "/", "b", ".", "t">>,
    <<"k", "/", "e", ".">>,
    <<"c", "/", "a", ".", "t">>,
    <<"c", "/", "b", ".", "T">>,
    <<"c", "/", "e", ".">> }

\* The directories that exist (they are never removed).
Dirs == {DirK, DirC}

\* A regular file with its bytes; an unreadable one (os.Open fails) is
\* known to the program by its size alone.
Contents == {<<0>>, <<1>>, <<0, 0>>}
RegularFiles ==
    [mode : {"regular"}, data : Contents, readable : {TRUE}]
        \cup [mode : {"regular"}, data : {<<0>>}, readable : {FALSE}]
\* An entry with a type bit set in its mode (a symbolic link).
OtherFiles == [mode : {"symlink"}, data : {<<0>>}, readable : {TRUE}]
Files == RegularFiles \cup OtherFiles

\* A filesystem is a function from the paths that exist to their files.
Exists(f, path) == path \in DOMAIN f

\* os.Lstat(root) succeeds
LstatOk(f, root) == root \in Dirs \/ Exists(f, root)

\* path is root or lies below it
Under(root, path) == path = root \/ HasPrefix(path, root \o <<"/">>)

\* info.Size()
Size(file) == Len(file.data)

\* hex.EncodeToString(sha256.Sum(data)): a digest that is different for
\* different data.
Sha256Hex(data) == <<"sha256", data>>

----------------------------------------------------------------------------
(* Maps (Go's map[K]V): functions on the set of their keys *)

EmptyMap == <<>>

MapSet(m, k, v) == [x \in DOMAIN m \cup {k} |-> IF x = k THEN v ELSE m[x]]

\* m[k] for a []string-valued map: nil when the key is absent
MapGet(m, k) == IF k \in DOMAIN m THEN m[k] ELSE <<>>

----------------------------------------------------------------------------
(* scanSizes *)

RECURSIVE Sorted(_)
Sorted(S) ==
    IF S = {} THEN <<>>
    ELSE LET first == CHOOSE p \in S : \A q \in S \ {p} : Less(p, q)
         IN  <<first>> \o Sorted(S \ {first})

\* The entries filepath.Walk hands to the callback with their FileInfo, in
\* its order (lexical, directory by directory).  When os.Lstat(root) fails
\* the callback gets the error, returns filepath.SkipDir, and Walk visits
\* nothing.  Directories are handed over too, and skipped by their mode.
WalkOrder(f, root) ==
    IF ~LstatOk(f, root) THEN <<>>
    ELSE Sorted({p \in DOMAIN f : Under(root, p)})

\* Walk's result: the callback returns nil or filepath.SkipDir only, and Walk
\* turns SkipDir into nil.
WalkError(f, root) == "nil"

\* Every file is considered.
MatchesAnything(path, sfx) == TRUE

\* "only consider files with requested extensions"
MatchesSuffixes(path, sfx) ==
    Len(sfx) > 0 =>
        \E i \in 1..Len(sfx) : HasSuffix(ToLower(path), <<".">> \o sfx[i])

\* The callback on one entry that has a FileInfo.
Visit(names, f, path, sfx) ==
    IF f[path].mode # "regular" THEN names
    ELSE IF ~MatchesSuffixes(path, sfx) THEN names
    ELSE MapSet(names, Size(f[path]), Append(MapGet(names, Size(f[path])), path))

RECURSIVE VisitAll(_, _, _, _, _)
VisitAll(names, f, order, i, sfx) ==
    IF i > Len(order) THEN names
    ELSE VisitAll(Visit(names, f, order[i], sfx), f, order, i + 1, sfx)

scanSizes(f, root, sfx) ==
    IF WalkError(f, root) # "nil"
    THEN [names |-> EmptyMap, err |-> WalkError(f, root)]
    ELSE [names |-> VisitAll(EmptyMap, f, WalkOrder(f, root), 1, sfx),
          err |-> "nil"]

----------------------------------------------------------------------------
(* scanHashes *)

\* os.Open, then io.Copy into the hash
CanRead(f, path) == Exists(f, path) /\ f[path].readable

\* The digest is taken before the file's bytes are copied into the hash.
HashOneOfNothing(files, f, path) ==
    IF ~CanRead(f, path) THEN files
    ELSE MapSet(files, Sha256Hex(<<>>), path)

\* The first path with a digest stays in the map.
HashOneFirstWins(files, f, path) ==
    IF ~CanRead(f, path) \/ Sha256Hex(f[path].data) \in DOMAIN files THEN files
    ELSE MapSet(files, Sha256Hex(f[path].data), path)

HashOne(files, f, path) ==
    IF ~CanRead(f, path) THEN files
    ELSE MapSet(files, Sha256Hex(f[path].data), path)

RECURSIVE HashAll(_, _, _, _)
HashAll(files, f, paths, i) ==
    IF i > Len(paths) THEN files
    ELSE HashAll(HashOne(files, f, paths[i]), f, paths, i + 1)

scanHashes(f, paths) == [files |-> HashAll(EmptyMap, f, paths, 1), err |-> "nil"]

\* What a scanHashes call computed: <<path, size, digest>> of each file read.
Hashed(f, paths, sz) ==
    {<<paths[i], sz, Sha256Hex(f[paths[i]].data)>> :
        i \in {j \in 1..Len(paths) : CanRead(f, paths[j])}}

----------------------------------------------------------------------------
(* main *)

None == "none"
NoRun == [ran |-> FALSE]

NoOutput ==
    [removeCalls  |-> {},      \* paths handed to os.Remove
     removed      |-> {},      \* paths os.Remove removed
     removeFailed |-> FALSE,   \* os.Remove returned an error
     pairs        |-> {},      \* <<cleanpath, keeppath>> logged as duplicates
     keepHashed   |-> {},      \* <<path, size, digest>> read by scanHashes(keeperNames)
     cleanHashed  |-> {},      \* the same for scanHashes(cleanerNames)
     summary      |-> None]    \* the final line: <<filecount, bytecount>>

\* The position where main() starts a run, and the state of its locals there.
Start(d) ==
    /\ dry' = d
    /\ pc' = "scanKeep"
    /\ suffixes' = <<>>
    /\ keeperSizes' = EmptyMap
    /\ cleanerSizes' = EmptyMap
    /\ sizesLeft' = {}
    /\ size' = 0
    /\ keepers' = EmptyMap
    /\ cleaners' = EmptyMap
    /\ keysLeft' = {}
    /\ filecount' = 0
    /\ bytecount' = 0
    /\ out' = NoOutput

\* The arguments of a run: <<keep, clean>> are two directories, one
\* directory twice, a root that does not exist, or a root that is (when it
\* exists) a file.
RootArgs ==
    {<<DirK, DirC>>, <<DirK, DirK>>, <<Missing, DirC>>, <<DirK, Missing>>,
     <<DirK, FileRoot>>}
ExtensionArgs == {<<>>, <<"j", ",", "T">>}

Filesystems ==
    UNION {[S -> Files] : S \in {T \in SUBSET AllPaths : Cardinality(T) <= MaxFiles}}

Init ==
    /\ fs \in Filesystems
    /\ fs0 = fs
    /\ \E roots \in RootArgs : keep = roots[1] /\ clean = roots[2]
    /\ extensions \in ExtensionArgs
    /\ dry \in BOOLEAN
    /\ pc = "scanKeep"
    /\ suffixes = <<>>
    /\ keeperSizes = EmptyMap
    /\ cleanerSizes = EmptyMap
    /\ sizesLeft = {}
    /\ size = 0
    /\ keepers = EmptyMap
    /\ cleaners = EmptyMap
    /\ keysLeft = {}
    /\ filecount = 0
    /\ bytecount = 0
    /\ out = NoOutput
    /\ dryRun = NoRun

\* suffixes := strings.Split(strings.ToLower(extensions), ",")
Suffixes(ext) == Split(ToLower(ext), ",")

\* keeperSizes, err := scanSizes(keep, suffixes)
ScanKeep ==
    /\ pc = "scanKeep"
    /\ suffixes' = Suffixes(extensions)
    /\ LET r == scanSizes(fs, keep, Suffixes(extensions))
       IN  IF r.err # "nil"
           THEN pc' = "exit" /\ UNCHANGED keeperSizes
           ELSE pc' = "scanClean" /\ keeperSizes' = r.names
    /\ UNCHANGED <<fs, keep, clean, extensions, dry, cleanerSizes, sizesLeft,
                   size, keepers, cleaners, keysLeft, filecount, bytecount,
                   out, fs0, dryRun>>

\* cleanerSizes, err := scanSizes(clean, suffixes)
ScanClean ==
    /\ pc = "scanClean"
    /\ LET r == scanSizes(fs, clean, suffixes)
       IN  IF r.err # "nil"
           THEN pc' = "exit" /\ UNCHANGED <<cleanerSizes, sizesLeft>>
           ELSE /\ pc' = "sizes"
                /\ cleanerSizes' = r.names
                /\ sizesLeft' = DOMAIN keeperSizes
    /\ UNCHANGED <<fs, keep, clean, extensions, dry, suffixes, keeperSizes,
                   size, keepers, cleaners, keysLeft, filecount, bytecount,
                   out, fs0, dryRun>>

\* One step of "for size, keeperNames := range keeperSizes", in any order,
\* for a size the clean tree has too: both buckets are hashed.
NextSizeHash ==
    /\ pc = "sizes"
    /\ \E s \in sizesLeft :
        /\ s \in DOMAIN cleanerSizes
        /\ size' = s
        /\ sizesLeft' = sizesLeft \ {s}
        /\ LET k == scanHashes(fs, keeperSizes[s])
               c == scanHashes(fs, cleanerSizes[s])
           IN  IF k.err # "nil" \/ c.err # "nil"
               THEN pc' = "exit" /\ UNCHANGED <<keepers, cleaners, keysLeft, out>>
               ELSE /\ pc' = "keys"
                    /\ keepers' = k.files
                    /\ cleaners' = c.files
                    /\ keysLeft' = DOMAIN k.files
                    /\ out' = [out EXCEPT
                           !.keepHashed = @ \cup Hashed(fs, keeperSizes[s], s),
                           !.cleanHashed = @ \cup Hashed(fs, cleanerSizes[s], s)]
    /\ UNCHANGED <<fs, keep, clean, extensions, dry, suffixes, keeperSizes,
                   cleanerSizes, filecount, bytecount, fs0, dryRun>>

\* ... for a size the clean tree has not: nothing to do.
NextSizeSkip ==
    /\ pc = "sizes"
    /\ \E s \in sizesLeft :
        /\ s \notin DOMAIN cleanerSizes
        /\ size' = s
        /\ sizesLeft' = sizesLeft \ {s}
    /\ UNCHANGED <<fs, keep, clean, extensions, dry, pc, suffixes, keeperSizes,
                   cleanerSizes, keepers, cleaners, keysLeft, filecount,
                   bytecount, out, fs0, dryRun>>

\* os.Remove(path) may fail (a read-only directory, say) and does when the
\* path does not exist.
RemoveOutcomes(f, path) == IF Exists(f, path) THEN {TRUE, FALSE} ELSE {FALSE}

\* The filesystem after os.Remove(path) succeeded.
Remove(f, path) == [p \in DOMAIN f \ {path} |-> f[p]]

\* The error is logged and the loop goes on.
AfterRemoveErrorLogged == "keys"

\* log.Fatalf after a failed os.Remove: the process exits.
AfterRemoveError == "fatal"

\* The path handed to os.Remove for a pair.
RemoveTarget(cleanpath, keeppath) == cleanpath

\* The flag is not looked at.
IsDryIgnored(d) == FALSE

\* "if dry": report only.
IsDry(d) == d

\* The counter counts files, not bytes.
AddOne(total, sz) == total + 1

\* bytecount += size
AddBytes(total, sz) == total + sz

\* One step of "for key, keeppath := range keepers", in any order, for a
\* digest the clean bucket has too: a duplicate.
NextKeyDup ==
    /\ pc = "keys"
    /\ \E key \in keysLeft :
        /\ key \in DOMAIN cleaners
        /\ keysLeft' = keysLeft \ {key}
        /\ filecount' = filecount + 1
        /\ bytecount' = AddBytes(bytecount, size)
        /\ LET cleanpath == cleaners[key]
               keeppath == keepers[key]
               target == RemoveTarget(cleanpath, keeppath)
               logged == [out EXCEPT !.pairs = @ \cup {<<cleanpath, keeppath>>}]
           IN  IF IsDry(dry)
               THEN /\ out' = logged
                    /\ UNCHANGED <<fs, pc>>
               ELSE \E ok \in RemoveOutcomes(fs, target) :
                      IF ok
                      THEN /\ fs' = Remove(fs, target)
                           /\ out' = [logged EXCEPT
                                  !.removeCalls = @ \cup {target},
                                  !.removed = @ \cup {target}]
                           /\ UNCHANGED pc
                      ELSE /\ pc' = AfterRemoveError
                           /\ out' = [logged EXCEPT
                                  !.removeCalls = @ \cup {target},
                                  !.removeFailed = TRUE]
                           /\ UNCHANGED fs
    /\ UNCHANGED <<keep, clean, extensions, dry, suffixes, keeperSizes,
                   cleanerSizes, sizesLeft, size, keepers, cleaners, fs0, dryRun>>

\* ... for a digest the clean bucket has not.
NextKeySkip ==
    /\ pc = "keys"
    /\ \E key \in keysLeft :
        /\ key \notin DOMAIN cleaners
        /\ keysLeft' = keysLeft \ {key}
    /\ UNCHANGED <<fs, keep, clean, extensions, dry, pc, suffixes, keeperSizes,
                   cleanerSizes, sizesLeft, size, keepers, cleaners, filecount,
                   bytecount, out, fs0, dryRun>>

\* The inner loop is over: back to the outer one.
EndKeys ==
    /\ pc = "keys"
    /\ keysLeft = {}
    /\ pc' = "sizes"
    /\ UNCHANGED <<fs, keep, clean, extensions, dry, suffixes, keeperSizes,
                   cleanerSizes, sizesLeft, size, keepers, cleaners, keysLeft,
                   filecount, bytecount, out, fs0, dryRun>>

\* The outer loop is over: the summary line, and main returns.
Summary ==
    /\ pc = "sizes"
    /\ sizesLeft = {}
    /\ pc' = "done"
    /\ out' = [out EXCEPT !.summary = <<filecount, bytecount>>]
    /\ UNCHANGED <<fs, keep, clean, extensions, dry, suffixes, keeperSizes,
                   cleanerSizes, sizesLeft, size, keepers, cleaners, keysLeft,
                   filecount, bytecount, fs0, dryRun>>

\* The user runs the program again without -dry after a dry run, with the
\* same roots and extensions, on the filesystem as it is.
Rerun ==
    /\ pc = "done"
    /\ dry
    /\ dryRun = NoRun
    /\ dryRun' = [ran |-> TRUE, pairs |-> out.pairs, summary |-> out.summary]
    /\ fs0' = fs
    /\ Start(FALSE)
    /\ UNCHANGED <<fs, keep, clean, extensions>>

Next ==
    \/ ScanKeep
    \/ ScanClean
    \/ NextSizeHash
    \/ NextSizeSkip
    \/ NextKeyDup
    \/ NextKeySkip
    \/ EndKeys
    \/ Summary
    \/ Rerun

Spec == Init /\ [][Next]_vars

----------------------------------------------------------------------------
(* Vocabulary of the properties *)

Range(seq) == {seq[i] : i \in 1..Len(seq)}

\* The paths in the buckets of a size map.
Scanned(names) == UNION {Range(names[s]) : s \in DOMAIN names}

\* The regular files below a root when the run started.
RegularUnder(root) ==
    {p \in DOMAIN fs0 : Under(root, p) /\ fs0[p].mode = "regular"}

\* The extensions the -extensions value lists.
Listed(ext) == Range(Split(ToLower(ext), ","))

\* A path's extension: what follows the last dot of its last component, in
\* lower case; NoExtension when that component has no dot.
NoExtension == <<"/">>
ExtOf(path) ==
    LET dots == {i \in 1..Len(path) :
                    /\ path[i] = "."
                    /\ \A j \in i + 1..Len(path) : path[j] \notin {".", "/"}}
    IN  IF dots = {} THEN NoExtension
        ELSE LET i == CHOOSE d \in dots : TRUE
             IN  ToLower(SubSeq(path, i + 1, Len(path)))

RECURSIVE SumSizes(_)
SumSizes(S) ==
    IF S = {} THEN 0
    ELSE LET p == CHOOSE x \in S : TRUE
         IN  Size(fs0[p]) + SumSizes(S \ {p})

\* Same size and same digest, at the start of the run.
SameSizeAndDigest(p, q) ==
    /\ Size(fs0[p]) = Size(fs0[q])
    /\ Sha256Hex(fs0[p].data) = Sha256Hex(fs0[q].data)

\* The two trees share no path.
Disjoint == \A p \in AllPaths : ~(Under(keep, p) /\ Under(clean, p))

LiveDone == pc = "done" /\ ~dry

----------------------------------------------------------------------------
(* C1 *)

\* C1: at the normal end of a live run, every clean-tree file that passes
\* the extension filter, is readable and has the size and digest of such a
\* keep-tree file is gone, and that keep-tree file is still there; also when
\* several clean-tree files duplicate one keep-tree file.  Stated for two
\* trees that share no path.
C1_AllDuplicatesDeleted ==
    (LiveDone /\ Disjoint) =>
        \A f1 \in RegularUnder(keep), f2 \in RegularUnder(clean) :
            ( /\ MatchesSuffixes(f1, Suffixes(extensions))
              /\ MatchesSuffixes(f2, Suffixes(extensions))
              /\ fs0[f1].readable /\ fs0[f2].readable
              /\ SameSizeAndDigest(f1, f2) )
            => (~Exists(fs, f2) /\ Exists(fs, f1))

----------------------------------------------------------------------------
(* C2 *)

\* C2: in every state, every removed path is in a bucket of the clean size
\* scan, and some path in the keep scan's bucket of the same size was hashed
\* in this run to the same digest; so a removed file had the size and the
\* bytes of a file below the keep root.
C2_DeletionSound ==
    \A p \in out.removed :
        /\ p \in Scanned(cleanerSizes)
        /\ \E s \in DOMAIN keeperSizes \cap DOMAIN cleanerSizes :
             /\ p \in Range(cleanerSizes[s])
             /\ \E q \in Range(keeperSizes[s]) :
                  \E h \in out.keepHashed :
                     /\ h[1] = q /\ h[2] = s
                     /\ <<p, s, h[3]>> \in out.cleanHashed
        /\ \E q \in RegularUnder(keep) :
             /\ Size(fs0[q]) = Size(fs0[p])
             /\ fs0[q].data = fs0[p].data

\* A live run of two separate trees ended; it removed a file and left a
\* clean-tree file of the same size bucket with another digest.
C2_Witness ==
    /\ LiveDone /\ Disjoint
    /\ \E r \in out.removed, p \in DOMAIN fs :
         /\ p # r
         /\ \E s \in DOMAIN cleanerSizes : {p, r} \subseteq Range(cleanerSizes[s])
         /\ fs0[p].readable
         /\ fs0[p].data # fs0[r].data

----------------------------------------------------------------------------
(* C3 *)

\* C3: whatever the roots (also one directory given twice) and the mode, no
\* file below the keep root is ever deleted: every file that was below the
\* keep root when the run started is still there.
C3_KeepTreeUntouched ==
    \A p \in DOMAIN fs0 : Under(keep, p) => Exists(fs, p)

----------------------------------------------------------------------------
(* C4 *)

\* C4: a dry run changes nothing in the filesystem and calls os.Remove never;
\* and a live run started from the same filesystem with the same arguments
\* that ends normally has logged the pairs the dry run logged, removed
\* exactly the clean paths of those pairs, and prints the same file count
\* and byte count, whatever the order in which the maps were iterated.
C4_DryRunEquivalent ==
    /\ dry => (fs = fs0 /\ out.removeCalls = {} /\ out.removed = {})
    /\ (LiveDone /\ dryRun.ran) =>
          /\ out.pairs = dryRun.pairs
          /\ out.removed = {pair[1] : pair \in dryRun.pairs}
          /\ out.summary = dryRun.summary

\* A live run that followed a dry run ended, both having found two pairs.
C4_Witness ==
    /\ LiveDone /\ dryRun.ran
    /\ Cardinality(dryRun.pairs) = 2
    /\ Cardinality(out.removed) = 2

----------------------------------------------------------------------------
(* C5 *)

\* C5: without -extensions (the empty string) every regular file below the
\* root is in the size bucket of its size: here, for the keep root, right
\* after its scan.
C5_EmptyFilterMatchesAll ==
    (pc = "scanClean" /\ extensions = <<>>) =>
        \A p \in RegularUnder(keep) :
            p \in Range(MapGet(keeperSizes, Size(fs0[p])))

----------------------------------------------------------------------------
(* C6 *)

\* C6: when the keep root or the clean root does not exist or is not a
\* directory, the run ends with a failure: it never ends normally and never
\* prints the summary line.
C6_InvalidRootFatal ==
    (keep \notin Dirs \/ clean \notin Dirs) =>
        /\ pc # "done"
        /\ out.summary = None

----------------------------------------------------------------------------
(* C7 *)

\* C7: once os.Remove has failed in a live run the run is over with a
\* failure: it is at its fatal exit with no summary line, nothing is hashed
\* or removed afterwards, and what was removed before stays removed.
C7_RemoveFailureFatal ==
    /\ [](out.removeFailed =>
            /\ pc = "fatal"
            /\ ~dry
            /\ out.summary = None
            /\ \A p \in out.removed : ~Exists(fs, p))
    /\ [][out.removeFailed => UNCHANGED <<fs, out, pc>>]_vars

\* os.Remove failed after an earlier removal had succeeded.
C7_Witness ==
    /\ out.removeFailed
    /\ pc = "fatal"
    /\ out.removed # {}

----------------------------------------------------------------------------
(* C8 *)

\* C8: in every state the file count is the number of duplicate pairs
\* logged so far and the byte count is the sum of the sizes of their clean
\* files, each in the clean scan's bucket of that size; the summary line
\* carries the two counters; and at the normal end of a live run they are
\* the number of files removed and the sum of their sizes.
C8_TotalsExact ==
    LET cleanOf == {pair[1] : pair \in out.pairs}
    IN  /\ filecount = Cardinality(out.pairs)
        /\ Cardinality(cleanOf) = Cardinality(out.pairs)
        /\ bytecount = SumSizes(cleanOf)
        /\ \A p \in cleanOf : p \in Range(MapGet(cleanerSizes, Size(fs0[p])))
        /\ out.summary # None => out.summary = <<filecount, bytecount>>
        /\ LiveDone =>
              /\ filecount = Cardinality(out.removed)
              /\ bytecount = SumSizes(out.removed)
              /\ out.removed = DOMAIN fs0 \ DOMAIN fs

\* The scenario of the specification ended: one keep file, a clean file
\* with its bytes and a clean file of the same size with other bytes give
\* 1 file and its size.
C8_Witness ==
    /\ LiveDone /\ Disjoint
    /\ Cardinality(DOMAIN fs0) = 3
    /\ \E a \in RegularUnder(keep), b \in RegularUnder(clean), c \in RegularUnder(clean) :
         /\ SameSizeAndDigest(a, b)
         /\ Size(fs0[c]) = Size(fs0[a]) /\ fs0[c].data # fs0[a].data
         /\ fs0[c].readable
         /\ out.removed = {b}
         /\ Exists(fs, c)
         /\ out.summary = <<1, Size(fs0[b])>>

\* Two trees with no size in common: 0 files, 0 bytes.
C8_WitnessNoSharedSize ==
    /\ pc = "done"
    /\ DOMAIN keeperSizes # {} /\ DOMAIN cleanerSizes # {}
    /\ DOMAIN keeperSizes \cap DOMAIN cleanerSizes = {}
    /\ out.summary = <<0, 0>>

----------------------------------------------------------------------------
(* C9 *)

\* C9: with an -extensions value, a file whose extension is not one of those
\* listed (letter case aside) is in no size bucket and no hash bucket of
\* either tree, is never hashed, is never handed to os.Remove, and is still
\* there, in every state of the run.
C9_FilterExcludes ==
    extensions # <<>> =>
        \A p \in DOMAIN fs0 :
            ExtOf(p) \notin Listed(extensions) =>
                /\ p \notin Scanned(keeperSizes) \cup Scanned(cleanerSizes)
                /\ \A key \in DOMAIN keepers : keepers[key] # p
                /\ \A key \in DOMAIN cleaners : cleaners[key] # p
                /\ \A h \in out.keepHashed \cup out.cleanHashed : h[1] # p
                /\ p \notin out.removeCalls
                /\ Exists(fs, p)

\* A live run with an -extensions value ended; it removed a duplicate and
\* left a clean-tree file with the same bytes whose extension is not listed.
C9_Witness ==
    /\ LiveDone /\ Disjoint
    /\ extensions # <<>>
    /\ \E r \in out.removed, p \in RegularUnder(clean) :
         /\ ExtOf(p) \notin Listed(extensions)
         /\ fs0[p].readable
         /\ SameSizeAndDigest(p, r)
         /\ Exists(fs, p)

----------------------------------------------------------------------------
(* C10 *)

\* The last path of a sequence that can be read and has the digest.
LastWith(paths, digest) ==
    LET at == {i \in 1..Len(paths) :
                 /\ fs0[paths[i]].readable
                 /\ Sha256Hex(fs0[paths[i]].data) = digest}
    IN  paths[CHOOSE i \in at : \A j \in at : j <= i]

\* files is what scanHashes is to return for paths.
LastSeenWins(files, paths) ==
    /\ DOMAIN files =
         {Sha256Hex(fs0[p].data) : p \in {q \in Range(paths) : fs0[q].readable}}
    /\ \A digest \in DOMAIN files : files[digest] = LastWith(paths, digest)

\* C10: scanHashes returns no error and maps each digest to the last path
\* of its input that could be read and has that digest; so a run hands to
\* os.Remove, and logs as a duplicate, at most one path per digest, and a live run of two separate
\* trees that ends normally has removed, of the readable clean-tree files
\* scanned with the bytes of a readable scanned keep-tree file, exactly one:
\* the last one in traversal order.
C10_OneDeletionPerDigest ==
    /\ pc # "exit"
    /\ pc = "keys" =>
          /\ LastSeenWins(keepers, keeperSizes[size])
          /\ LastSeenWins(cleaners, cleanerSizes[size])
    /\ LET matched == {pair[1] : pair \in out.pairs} \cup out.removeCalls
       IN  \A p \in matched, q \in matched :
              Sha256Hex(fs0[p].data) = Sha256Hex(fs0[q].data) => p = q
    /\ (LiveDone /\ Disjoint) =>
          \A k \in Scanned(keeperSizes) :
              LET dups == {c \in Scanned(cleanerSizes) :
                              fs0[c].readable /\ SameSizeAndDigest(c, k)}
              IN  (fs0[k].readable /\ dups # {}) =>
                      \E r \in dups :
                          /\ out.removed \cap dups = {r}
                          /\ \A c \in dups \ {r} : Less(c, r) /\ Exists(fs, c)

\* A live run of two separate trees ended: of two clean-tree files with the
\* bytes of a keep-tree file it removed one and left the other.
C10_Witness ==
    /\ LiveDone /\ Disjoint
    /\ \E r \in out.removed, c \in DOMAIN fs :
         /\ c # r
         /\ {c, r} \subseteq Scanned(cleanerSizes)
         /\ fs0[c].readable
         /\ SameSizeAndDigest(c, r)

====
